---- MODULE Spec2Model ----
(***************************************************************************)
(* Model of the tile downloader of backend/tile_downloader.py and of the   *)
(* server-sent-event stream built on it in backend/export.py.              *)
(*                                                                         *)
(* download_tiles_with_progress is an async generator: it runs only while  *)
(* its consumer asks for the next item and is suspended at every yield.    *)
(* Each tile is fetched by its own task (download_single_tile), and the    *)
(* tasks interleave at their await points.                                 *)
(*                                                                         *)
(* The functions of backend/sliding_window.py are operators of the same    *)
(* names; PureSpec calls them on bounded inputs. Pixel coordinates are     *)
(* integers.                                                               *)
(***************************************************************************)
EXTENDS Integers, Sequences, FiniteSets, TLC

\* Longest tile list explored.
MaxTiles == 3
\* Largest max_concurrent explored (the smallest is -1).
MaxConcurrent == 2
\* Only the files of tiles 1..MaxExisting can be in output_dir before the run.
MaxExisting == 2

\* Largest tile size the functions of sliding_window.py are called with.
MaxSize == 4

\* Largest number of labeled images in a corpus.
MaxImages == 2
MaxServers == 2

\* HTTP statuses a request can be answered with.
Statuses == {200, 404}
\* Exceptions a request or a response read can raise.
ExcKinds == {"ClientConnectionError", "TimeoutError"}

\* Python's None, for current_tile and error.
None == "<None>"

VARIABLES
    tiles,          \* the tile list: a sequence of distinct tile addresses
    max_concurrent, \* the concurrency limit given by the caller
    skip_existing,  \* the skip-existing flag given by the caller
    files,          \* output_dir: tile address -> "absent", "old" or "new"
    filesBefore,    \* history: output_dir as it was before the run
    sem,            \* the value of the asyncio.Semaphore
    taskPc,         \* the position of each tile's task
    result,         \* the TileDownloadResult of each finished task
    doneOrder,      \* the tasks in the order they finished
    yielded,        \* how many results as_completed has handed out
    total, completed, failed, skipped,   \* the generator's locals
    stream,         \* the events generate_events has yielded so far
    genPc,          \* the position of the generator
    existedAtRun,   \* history: did the tile's file exist when its task ran
    requests,       \* history: the requests issued for each tile
    permits,        \* history: the semaphore slots taken by each tile
    counted,        \* history: how often each tile's result was consumed
    call,           \* sliding_window.py: the function called last, with its arguments
    ret,            \* sliding_window.py: what that call returned
    runPc,          \* process_sliding_windows: where the run is
    run_stride,         \* its argument
    tiles_dir_found,\* find_tiles_directory found a directory
    run_tiles_dir,      \* the files of the tiles directory
    coco_exists,    \* the annotations manifest is there
    coco_data,      \* and what it holds
    raised,         \* the exception that left the function, "" for none
    run_tile_size,
    offsets,
    output_made,    \* the output directory exists
    output_files,   \* the image files in it
    saved,          \* annotations.json in it: <<>> until written
    new_images,
    new_annotations,
    new_image_id,
    new_annotation_id,
    originals_copied,
    windows_created,
    windows_skipped,
    annotations_created,
    img_idx,        \* the image the loop is at
    off_idx,        \* the offset the inner loop is at
    visit,          \* history: the last pass of the inner loop
    visited,        \* history: the passes of the inner loop, in order
    tile_servers,   \* config.py: the tile_servers of the stored configuration
    config_call,    \* history: the last call of a tile-server endpoint
    config_ret,     \* history: what the call answered
    config_before   \* history: the stored tile_servers before the call

params == <<tiles, max_concurrent, skip_existing, filesBefore>>
counters == <<total, completed, failed, skipped>>
taskVars == <<files, sem, taskPc, result, doneOrder, existedAtRun, requests, permits>>
genVars == <<yielded, total, completed, failed, skipped, stream, genPc, counted>>
vars == <<tiles, max_concurrent, skip_existing, files, filesBefore, sem, taskPc, result,
          doneOrder, yielded, total, completed, failed, skipped, stream, genPc,
          existedAtRun, requests, permits, counted, call, ret,
          runPc, run_stride, tiles_dir_found, run_tiles_dir, coco_exists, coco_data,
          raised, run_tile_size, offsets, output_made, output_files, saved,
          new_images, new_annotations, new_image_id, new_annotation_id,
          originals_copied, windows_created, windows_skipped,
          annotations_created, img_idx, off_idx, visit, visited,
          tile_servers, config_call, config_ret, config_before>>

\* The state of sliding_window.py, which the downloader does not touch.
pureVars == <<call, ret>>
inputs == <<run_stride, tiles_dir_found, run_tiles_dir, coco_exists, coco_data>>
manifest == <<new_images, new_annotations, new_image_id, new_annotation_id>>
counts == <<originals_copied, windows_created, windows_skipped,
            annotations_created>>
runVars == <<runPc, inputs, raised, run_tile_size, offsets, output_made,
             output_files, saved, manifest, counts, img_idx, off_idx, visit,
             visited>>
slidingVars == <<pureVars, runVars>>
configVars == <<tile_servers, config_call, config_ret, config_before>>
NoCall == [fn |-> "none", args |-> <<>>]

\* The zoom level and the coordinates of the tiles of the corpus, and of the
\* tiles a window of theirs can reach.
ZoomLevels == {15}
BaseXY == {0, 1}
GridXY == {0, 1, 2}
TileCoords == ZoomLevels \X GridXY \X GridXY

\* sliding_window.py:206-213. A tile file is there and opens, is missing, or
\* cannot be opened as an image.
DiskStatuses == {"ok", "absent", "corrupt"}

\* None, as create_window_image returns it.
NoImage == <<>>

\* A file name parse_tile_filename rejects: "15_0.png".
BadName == <<15, 0>>

\* The file names of the labeled images: "z_x_y.png" as (z, x, y).
CorpusNames == (ZoomLevels \X BaseXY \X BaseXY) \cup {BadName}

\* The files the tiles directory can hold.
FileNames == TileCoords \cup {BadName}

RECURSIVE Concat(_)
\* The sequences of ss, one after the other.
Concat(ss) == IF ss = <<>> THEN <<>> ELSE Head(ss) \o Concat(Tail(ss))

\* The annotations manifest of the images named names, of width w, image k
\* labeled with labels[k]. The ids are not 1, 2, ...
CocoData(names, w, labels) ==
    [images |-> [k \in 1..Len(names) |->
                    [id |-> 10 * k, file_name |-> names[k],
                     width |-> w, height |-> w]],
     annotations |-> Concat([k \in 1..Len(names) |->
                    [m \in 1..Len(labels[k]) |->
                        [id |-> 100 * k + m, image_id |-> 10 * k,
                         category_id |-> labels[k][m].category_id,
                         bbox |-> labels[k][m].bbox]]]),
     categories |-> <<1, 2>>]

\* No window visited yet.
NoVisit ==
    [image |-> 0, offset |-> <<>>, required |-> <<>>, annotations |-> <<>>,
     composited |-> FALSE, window_img |-> NoImage, outcome |-> "none",
     images_before |-> <<>>, annotations_before |-> <<>>,
     image_id_before |-> 0, annotation_id_before |-> 0,
     skipped_before |-> 0, counts_before |-> <<0, 0, 0, 0>>,
     files_before |-> {}]

\* The locals of process_sliding_windows at line 299, nothing written.
FreshRun ==
    /\ raised = ""
    /\ run_tile_size = 0
    /\ offsets = <<>>
    /\ output_made = FALSE
    /\ output_files = {}
    /\ saved = <<>>
    /\ new_images = <<>>
    /\ new_annotations = <<>>
    /\ new_image_id = 1
    /\ new_annotation_id = 1
    /\ originals_copied = 0
    /\ windows_created = 0
    /\ windows_skipped = 0
    /\ annotations_created = 0
    /\ img_idx = 0
    /\ off_idx = 0
    /\ visit = NoVisit
    /\ visited = <<>>

\* process_sliding_windows is not called.
NoRun ==
    /\ runPc = "idle"
    /\ run_stride = 1
    /\ tiles_dir_found = FALSE
    /\ run_tiles_dir = [f \in FileNames |-> "absent"]
    /\ coco_exists = FALSE
    /\ coco_data = CocoData(<<>>, 0, <<>>)
    /\ FreshRun

SlidingIdle == call = NoCall /\ ret = <<>> /\ NoRun

\* config.py:82-91. No configuration is stored: load_config answers the
\* default one, without tile servers; no endpoint was called.
NoConfig ==
    /\ tile_servers = <<>>
    /\ config_call = NoCall
    /\ config_ret = <<>>
    /\ config_before = <<>>

Tiles == 1..MaxTiles
TileIds == 1..Len(tiles)

\* tile_downloader.py:13-21
DownloadProgress(t, c, f, s, tile, err) ==
    [total |-> t, completed |-> c, failed |-> f, skipped |-> s,
     current_tile |-> tile, error |-> err]

\* tile_downloader.py:25-32
TileDownloadResult(tile, ok, err, skip) ==
    [tile |-> tile, success |-> ok, error |-> err, skipped |-> skip]

\* str(e) of the exceptions: asyncio.TimeoutError carries no message.
StrOfException(e) ==
    IF e = "TimeoutError" THEN "" ELSE "Cannot connect to host"

\* tile_downloader.py:151. f"{z}/{x}/{y}" of a tile, which tells tiles apart.
TileString(tile) == "z/" \o ToString(tile) \o "/y"

\* f"HTTP {response.status}"
HttpError(status) == "HTTP " \o ToString(status)

\* export.py:220-230: a snapshot wrapped as a "progress" event.
ProgressEvent(p) == [event |-> "progress", data |-> p]
\* export.py:232-235
CompleteEvent == [event |-> "complete", data |-> None]

Init ==
    /\ \E n \in 0..MaxTiles : tiles = [i \in 1..n |-> i]
    /\ max_concurrent \in -1..MaxConcurrent
    /\ skip_existing \in BOOLEAN
    /\ \E pre \in SUBSET (Tiles \cap 1..MaxExisting) :
          files = [a \in Tiles |-> IF a \in pre THEN "old" ELSE "absent"]
    /\ filesBefore = files
    /\ sem = 0
    /\ taskPc = [i \in TileIds |-> "uncreated"]
    /\ result = [i \in TileIds |-> None]
    /\ doneOrder = <<>>
    /\ yielded = 0
    /\ total = 0 /\ completed = 0 /\ failed = 0 /\ skipped = 0
    /\ stream = <<>>
    /\ genPc = "start"
    /\ existedAtRun = [i \in TileIds |-> "unknown"]
    /\ requests = [i \in TileIds |-> 0]
    /\ permits = [i \in TileIds |-> 0]
    /\ counted = [i \in TileIds |-> 0]
    /\ SlidingIdle
    /\ NoConfig

(***************************************************************************)
(* download_single_tile: one task per tile.                                *)
(***************************************************************************)

\* The task returns r: leaving "async with semaphore" and finishing the task
\* happen without an await in between.
Finish(i, r) ==
    /\ taskPc' = [taskPc EXCEPT ![i] = "done"]
    /\ result' = [result EXCEPT ![i] = r]
    /\ doneOrder' = Append(doneOrder, i)

\* The slot is not given back.
ReleaseLost == sem

\* Semaphore.__aexit__: the slot is given back.
Release == sem + 1

\* The semaphore lets a task through with no slot left.
SlotFreeOffByOne == sem >= 0

\* tile_downloader.py:74. "async with semaphore" goes on without waiting
\* exactly when the semaphore has a free slot.
SlotFree == sem > 0

\* tile_downloader.py:74-76. The slot is taken and the request is issued; the
\* task then waits for the response.
TakeSlot(i) ==
    /\ sem' = sem - 1
    /\ permits' = [permits EXCEPT ![i] = @ + 1]
    /\ requests' = [requests EXCEPT ![i] = @ + 1]
    /\ taskPc' = [taskPc EXCEPT ![i] = "get"]

\* The existence test is inverted.
SkipTileInverted(i) == skip_existing /\ files[tiles[i]] = "absent"

\* tile_downloader.py:129-135. The event loop runs the first step of every
\* task create_task has scheduled, in the order of their creation, before it
\* looks at any response and before it resumes the generator.
StartedBefore(i) == \A j \in 1..(i - 1) : taskPc[j] # "created"
AllStarted == \A j \in TileIds : taskPc[j] # "created"

\* tile_downloader.py:64. The tile is skipped.
SkipTile(i) == skip_existing /\ files[tiles[i]] # "absent"

\* tile_downloader.py:60-76. The task's first run, up to its first await: the
\* existence check, then the semaphore; with a free slot the request is
\* issued at once, otherwise the task waits for a slot.
StartTask(i) ==
    /\ taskPc[i] = "created"
    /\ StartedBefore(i)
    /\ existedAtRun' = [existedAtRun EXCEPT ![i] =
                           IF files[tiles[i]] # "absent" THEN "yes" ELSE "no"]
    /\ IF SkipTile(i)
          THEN /\ Finish(i, TileDownloadResult(tiles[i], TRUE, None, TRUE))
               /\ UNCHANGED <<sem, requests, permits>>
          ELSE IF SlotFree
                  THEN /\ TakeSlot(i)
                       /\ UNCHANGED <<result, doneOrder>>
                  ELSE /\ taskPc' = [taskPc EXCEPT ![i] = "acquire"]
                       /\ UNCHANGED <<sem, requests, permits, result, doneOrder>>
    /\ UNCHANGED files
    /\ UNCHANGED <<params, slidingVars, configVars, genVars>>

\* tile_downloader.py:126. The ClientSession is closed when the generator
\* leaves "async with": at the end of the loop, or when it is closed at a yield.
SessionClosed == genPc \in {"complete", "closed", "cancelled"}

\* tile_downloader.py:74-76. A waiting task is given a slot that was released.
Acquire(i) ==
    /\ taskPc[i] = "acquire"
    /\ SlotFree
    /\ ~SessionClosed
    /\ TakeSlot(i)
    /\ UNCHANGED <<files, result, doneOrder, existedAtRun>>
    /\ UNCHANGED <<params, slidingVars, configVars, genVars>>

\* A failed tile's file is removed.
UnlinkOnFailure(i) == [files EXCEPT ![tiles[i]] = "absent"]

\* tile_downloader.py:85-96. The failure branches return without touching
\* the tile's file.
FilesAfterFailure(i) == files

\* tile_downloader.py:76-90. The response headers arrive: on 200 the body is
\* read next, any other status is the tile's failure.
Respond(i) ==
    /\ taskPc[i] = "get"
    /\ AllStarted
    /\ \E status \in Statuses :
          IF status = 200
             THEN /\ taskPc' = [taskPc EXCEPT ![i] = "read"]
                  /\ UNCHANGED <<files, sem, result, doneOrder>>
             ELSE /\ Finish(i, TileDownloadResult(tiles[i], FALSE, HttpError(status), FALSE))
                  /\ files' = FilesAfterFailure(i)
                  /\ sem' = Release
    /\ UNCHANGED <<existedAtRun, requests, permits>>
    /\ UNCHANGED <<params, slidingVars, configVars, genVars>>

\* tile_downloader.py:78-84. The body is read and written to the tile's file.
ReadAndWrite(i) ==
    /\ taskPc[i] = "read"
    /\ AllStarted
    /\ files' = [files EXCEPT ![tiles[i]] = "new"]
    /\ Finish(i, TileDownloadResult(tiles[i], TRUE, None, FALSE))
    /\ sem' = Release
    /\ UNCHANGED <<existedAtRun, requests, permits>>
    /\ UNCHANGED <<params, slidingVars, configVars, genVars>>

\* tile_downloader.py:91-96. The request or the read raises: the exception is
\* caught and becomes the tile's failure, with str(e) as its reason.
Raise(i) ==
    /\ taskPc[i] \in {"get", "read"}
    /\ AllStarted
    /\ \E e \in ExcKinds :
          Finish(i, TileDownloadResult(tiles[i], FALSE, StrOfException(e), FALSE))
    /\ files' = FilesAfterFailure(i)
    /\ sem' = Release
    /\ UNCHANGED <<existedAtRun, requests, permits>>
    /\ UNCHANGED <<params, slidingVars, configVars, genVars>>

(***************************************************************************)
(* download_tiles_with_progress, driven by generate_events.                *)
(***************************************************************************)

\* tile_downloader.py:109. asyncio.Semaphore refuses a negative value (and
\* only a negative one) with ValueError, which ends the generator.
Reject ==
    /\ genPc = "start"
    /\ max_concurrent < 0
    /\ genPc' = "raised"
    /\ UNCHANGED <<yielded, counters, stream, counted>>
    /\ UNCHANGED <<params, slidingVars, configVars, taskVars>>

\* tile_downloader.py:107-124. The first run of the generator, up to the
\* initial snapshot.
Begin ==
    /\ genPc = "start"
    /\ max_concurrent >= 0
    /\ sem' = max_concurrent
    /\ total' = Len(tiles)
    /\ completed' = 0 /\ failed' = 0 /\ skipped' = 0
    /\ stream' = Append(stream, ProgressEvent(DownloadProgress(Len(tiles), 0, 0, 0, None, None)))
    /\ genPc' = "yield_initial"
    /\ UNCHANGED <<yielded, counted>>
    /\ UNCHANGED <<params, slidingVars, configVars, files, taskPc, result, doneOrder, existedAtRun, requests, permits>>

\* No completion marker is yielded.
AfterLoopSilent(s) == s

\* export.py:232-235. The generator is exhausted: generate_events yields the
\* completion marker.
AfterLoop(s) == Append(s, CompleteEvent)

\* tile_downloader.py:126-138. The consumer asks for the next item: the
\* session is opened and a task is created for every tile. With no tile the
\* loop over as_completed ends at once.
CreateTasks ==
    /\ genPc = "yield_initial"
    /\ taskPc' = [i \in TileIds |-> "created"]
    /\ IF total = 0
          THEN stream' = AfterLoop(stream) /\ genPc' = "complete"
          ELSE stream' = stream /\ genPc' = "await"
    /\ UNCHANGED <<yielded, counters, counted>>
    /\ UNCHANGED <<params, slidingVars, configVars, files, sem, result, doneOrder, existedAtRun, requests, permits>>

\* The results are awaited in the order of the tile list.
InListOrder ==
    IF yielded < Len(tiles) /\ taskPc[yielded + 1] = "done" THEN {yielded + 1} ELSE {}

\* Any finished task is handed out, also one handed out before.
AnyFinished ==
    IF yielded < Len(tiles) THEN {i \in TileIds : taskPc[i] = "done"} ELSE {}

\* asyncio.as_completed: the task whose result the next "await coro" returns,
\* if one is ready: the tasks come in the order they finished.
AsCompleted ==
    IF yielded < Len(doneOrder) THEN {doneOrder[yielded + 1]} ELSE {}

\* A failed tile is not counted as completed.
CompletedOnSuccess(r) == IF r.success THEN completed + 1 ELSE completed

\* A skipped tile is counted as failed too.
FailedOrSkipped(r) == IF ~r.success \/ r.skipped THEN failed + 1 ELSE failed

\* tile_downloader.py:140-144
NewCompleted(r) == completed + 1
NewFailed(r) == IF ~r.success THEN failed + 1 ELSE failed
NewSkipped(r) == IF r.success /\ r.skipped THEN skipped + 1 ELSE skipped

\* tile_downloader.py:138-153. A result is taken, the counters are updated
\* and the snapshot is yielded; there is no await in between.
Consume ==
    /\ genPc = "await"
    /\ AllStarted
    /\ \E i \in AsCompleted :
          LET r == result[i] IN
          /\ yielded' = yielded + 1
          /\ counted' = [counted EXCEPT ![i] = @ + 1]
          /\ completed' = NewCompleted(r)
          /\ failed' = NewFailed(r)
          /\ skipped' = NewSkipped(r)
          /\ stream' = Append(stream, ProgressEvent(
                 DownloadProgress(total, NewCompleted(r), NewFailed(r), NewSkipped(r),
                                  TileString(r.tile), r.error)))
    /\ genPc' = "yield"
    /\ UNCHANGED total
    /\ UNCHANGED <<params, slidingVars, configVars, taskVars>>

\* tile_downloader.py:138. The consumer asks for the next item after a tile's
\* snapshot: the loop goes on, or, all tasks handed out, ends.
Resume ==
    /\ genPc = "yield"
    /\ IF yielded = Len(tiles)
          THEN stream' = AfterLoop(stream) /\ genPc' = "complete"
          ELSE stream' = stream /\ genPc' = "await"
    /\ UNCHANGED <<yielded, counters, counted>>
    /\ UNCHANGED <<params, slidingVars, configVars, taskVars>>

\* export.py:235-237. The consumer asks once more: generate_events returns.
Close ==
    /\ genPc = "complete"
    /\ genPc' = "closed"
    /\ UNCHANGED <<yielded, counters, stream, counted>>
    /\ UNCHANGED <<params, slidingVars, configVars, taskVars>>

Next ==
    \/ Reject
    \/ Begin
    \/ CreateTasks
    \/ \E i \in TileIds : StartTask(i)
    \/ \E i \in TileIds : Acquire(i)
    \/ \E i \in TileIds : Respond(i)
    \/ \E i \in TileIds : ReadAndWrite(i)
    \/ \E i \in TileIds : Raise(i)
    \/ Consume
    \/ Resume
    \/ Close

Spec == Init /\ [][Next]_vars

(***************************************************************************)
(* The consumer stops consuming the stream.                                *)
(***************************************************************************)

\* tile_downloader.py:119-153. The generator is closed while suspended at a
\* yield: GeneratorExit leaves "async with" (when entered), which closes the
\* session; the tasks created are not cancelled. No marker is yielded.
Cancel ==
    /\ genPc \in {"yield_initial", "yield"}
    /\ genPc' = "cancelled"
    /\ UNCHANGED <<yielded, counters, stream, counted>>
    /\ UNCHANGED <<params, slidingVars, configVars, taskVars>>

\* The closed session still sends the request.
RequestOnClosedSession(i) ==
    /\ taskPc[i] = "acquire"
    /\ SlotFree
    /\ SessionClosed
    /\ TakeSlot(i)
    /\ UNCHANGED <<files, result, doneOrder, existedAtRun>>
    /\ UNCHANGED <<params, slidingVars, configVars, genVars>>

\* tile_downloader.py:74-76, 91-96. A waiting task gets its slot after the
\* session was closed: session.get raises RuntimeError before anything is
\* sent, the exception is caught and the slot is given back.
GetOnClosedSession(i) ==
    /\ taskPc[i] = "acquire"
    /\ SlotFree
    /\ SessionClosed
    /\ permits' = [permits EXCEPT ![i] = @ + 1]
    /\ Finish(i, TileDownloadResult(tiles[i], FALSE, "Session is closed", FALSE))
    /\ files' = FilesAfterFailure(i)
    /\ UNCHANGED <<sem, existedAtRun, requests>>
    /\ UNCHANGED <<params, slidingVars, configVars, genVars>>

NextCancel ==
    \/ Next
    \/ Cancel
    \/ \E i \in TileIds : GetOnClosedSession(i)

\* The event loop goes on running the tasks after the generator is closed.
CancelSpec == Init /\ [][NextCancel]_vars /\ WF_vars(NextCancel)

\* The event loop never idles while a task can run, every request is answered
\* or fails, and the consumer keeps asking for the next event: some step is
\* taken whenever one is possible.
Fairness == WF_vars(Next)

FairSpec == Spec /\ Fairness

(***************************************************************************)
(* backend/sliding_window.py: the geometry of the windows.                 *)
(***************************************************************************)

Min(a, b) == IF a < b THEN a ELSE b
Max(a, b) == IF a > b THEN a ELSE b

\* range(0, stop, step), step > 0.
Range(stop, step) == [k \in 1..((stop + step - 1) \div step) |-> (k - 1) * step]

\* The original position, which is no window.
IsOrigin(o) == o[1] = 0 /\ o[2] = 0

\* The loops with the row and the column exchanged.
generate_window_offsets_by_column(tile_size, stride) ==
    LET r == Range(tile_size, stride)
        n == Len(r)
        all == [k \in 1..(n * n) |->
                   <<r[((k - 1) \div n) + 1], r[((k - 1) % n) + 1]>>]
    IN SelectSeq(all, LAMBDA o : ~IsOrigin(o))

\* The original position not skipped.
generate_window_offsets_keeps_origin(tile_size, stride) ==
    LET r == Range(tile_size, stride)
        n == Len(r)
    IN [k \in 1..(n * n) |->
           <<r[((k - 1) % n) + 1], r[((k - 1) \div n) + 1]>>]

\* sliding_window.py:66-78. oy is the outer loop, ox the inner one; (0, 0) is
\* skipped.
generate_window_offsets(tile_size, stride) ==
    LET r == Range(tile_size, stride)
        n == Len(r)
        all == [k \in 1..(n * n) |->
                   <<r[((k - 1) % n) + 1], r[((k - 1) \div n) + 1]>>]
    IN SelectSeq(all, LAMBDA o : ~IsOrigin(o))

\* The right neighbour asked for at offset_x = 0 too.
get_required_tiles_always_right(z, x, y, offset_x, offset_y, tile_size) ==
    LET right_in_original == tile_size - offset_x
        bottom_in_original == tile_size - offset_y
    IN    (IF right_in_original > 0 /\ bottom_in_original > 0
           THEN << <<z, x, y, offset_x, offset_y, 0, 0>> >> ELSE <<>>)
       \o (IF offset_x >= 0 /\ bottom_in_original > 0
           THEN << <<z, x + 1, y, 0, offset_y, right_in_original, 0>> >> ELSE <<>>)
       \o (IF offset_y > 0 /\ right_in_original > 0
           THEN << <<z, x, y + 1, offset_x, 0, 0, bottom_in_original>> >> ELSE <<>>)
       \o (IF offset_x > 0 /\ offset_y > 0
           THEN << <<z, x + 1, y + 1, 0, 0, right_in_original, bottom_in_original>> >>
           ELSE <<>>)

\* sliding_window.py:81-117. The entries are
\* (z, x, y, src_x, src_y, dst_x, dst_y).
get_required_tiles(z, x, y, offset_x, offset_y, tile_size) ==
    LET right_in_original == tile_size - offset_x
        bottom_in_original == tile_size - offset_y
    IN    (IF right_in_original > 0 /\ bottom_in_original > 0
           THEN << <<z, x, y, offset_x, offset_y, 0, 0>> >> ELSE <<>>)
       \o (IF offset_x > 0 /\ bottom_in_original > 0
           THEN << <<z, x + 1, y, 0, offset_y, right_in_original, 0>> >> ELSE <<>>)
       \o (IF offset_y > 0 /\ right_in_original > 0
           THEN << <<z, x, y + 1, offset_x, 0, 0, bottom_in_original>> >> ELSE <<>>)
       \o (IF offset_x > 0 /\ offset_y > 0
           THEN << <<z, x + 1, y + 1, 0, 0, right_in_original, bottom_in_original>> >>
           ELSE <<>>)

\* The box translated and clipped on the left and top only.
translate_and_clip_bbox_unclipped_right(bbox, offset_x, offset_y, tile_size) ==
    LET new_x == bbox[1] - offset_x
        new_y == bbox[2] - offset_y
        x1 == Max(0, new_x)
        y1 == Max(0, new_y)
        x2 == new_x + bbox[3]
        y2 == new_y + bbox[4]
    IN IF x2 <= x1 \/ y2 <= y1 THEN <<>> ELSE <<x1, y1, x2 - x1, y2 - y1>>

\* The corners returned in place of the width and the height.
translate_and_clip_bbox_corners(bbox, offset_x, offset_y, tile_size) ==
    LET new_x == bbox[1] - offset_x
        new_y == bbox[2] - offset_y
        x1 == Max(0, new_x)
        y1 == Max(0, new_y)
        x2 == Min(tile_size, new_x + bbox[3])
        y2 == Min(tile_size, new_y + bbox[4])
    IN IF x2 <= x1 \/ y2 <= y1 THEN <<>> ELSE <<x1, y1, x2, y2>>

\* sliding_window.py:120-154. bbox is [x, y, width, height]; None is the empty
\* sequence.
translate_and_clip_bbox(bbox, offset_x, offset_y, tile_size) ==
    LET new_x == bbox[1] - offset_x
        new_y == bbox[2] - offset_y
        x1 == Max(0, new_x)
        y1 == Max(0, new_y)
        x2 == Min(tile_size, new_x + bbox[3])
        y2 == Min(tile_size, new_y + bbox[4])
    IN IF x2 <= x1 \/ y2 <= y1 THEN <<>> ELSE <<x1, y1, x2 - x1, y2 - y1>>

\* The right neighbour's part pasted one pixel too far to the left.
chunks_right_misplaced(x, y, offset_x, offset_y, tile_size) ==
    << [tile_x |-> x, tile_y |-> y,
        crop_box |-> <<offset_x, offset_y, tile_size, tile_size>>,
        paste_pos |-> <<0, 0>>],
       [tile_x |-> x + 1, tile_y |-> y,
        crop_box |-> <<0, offset_y, offset_x, tile_size>>,
        paste_pos |-> <<tile_size - offset_x - 1, 0>>],
       [tile_x |-> x, tile_y |-> y + 1,
        crop_box |-> <<offset_x, 0, tile_size, offset_y>>,
        paste_pos |-> <<0, tile_size - offset_y>>],
       [tile_x |-> x + 1, tile_y |-> y + 1,
        crop_box |-> <<0, 0, offset_x, offset_y>>,
        paste_pos |-> <<tile_size - offset_x, tile_size - offset_y>>] >>

\* sliding_window.py:180-197. crop_box is (left, top, right, bottom) in the
\* source tile.
chunks(x, y, offset_x, offset_y, tile_size) ==
    << [tile_x |-> x, tile_y |-> y,
        crop_box |-> <<offset_x, offset_y, tile_size, tile_size>>,
        paste_pos |-> <<0, 0>>],
       [tile_x |-> x + 1, tile_y |-> y,
        crop_box |-> <<0, offset_y, offset_x, tile_size>>,
        paste_pos |-> <<tile_size - offset_x, 0>>],
       [tile_x |-> x, tile_y |-> y + 1,
        crop_box |-> <<offset_x, 0, tile_size, offset_y>>,
        paste_pos |-> <<0, tile_size - offset_y>>],
       [tile_x |-> x + 1, tile_y |-> y + 1,
        crop_box |-> <<0, 0, offset_x, offset_y>>,
        paste_pos |-> <<tile_size - offset_x, tile_size - offset_y>>] >>

\* Only a chunk of negative width or height counts as empty.
ChunkEmptyStrict(c) == c.crop_box[3] < c.crop_box[1] \/ c.crop_box[4] < c.crop_box[2]

\* sliding_window.py:203. A chunk of zero width or height.
ChunkEmpty(c) == c.crop_box[3] <= c.crop_box[1] \/ c.crop_box[4] <= c.crop_box[2]

\* Every tile read, also one that is missing or unreadable.
create_window_image_unchecked(tiles_dir, z, x, y, offset_x, offset_y, tile_size) ==
    LET used == SelectSeq(chunks(x, y, offset_x, offset_y, tile_size),
                          LAMBDA c : ~ChunkEmpty(c))
    IN << [k \in 1..Len(used) |->
              [tile |-> <<z, used[k].tile_x, used[k].tile_y>>,
               crop_box |-> used[k].crop_box,
               paste_pos |-> used[k].paste_pos]] >>

\* sliding_window.py:157-219. The image is the list of the regions pasted
\* into it, in order; None when a tile of a non-empty chunk is missing or
\* cannot be opened.
create_window_image(tiles_dir, z, x, y, offset_x, offset_y, tile_size) ==
    LET used == SelectSeq(chunks(x, y, offset_x, offset_y, tile_size),
                          LAMBDA c : ~ChunkEmpty(c))
        pasted == [k \in 1..Len(used) |->
                      [tile |-> <<z, used[k].tile_x, used[k].tile_y>>,
                       crop_box |-> used[k].crop_box,
                       paste_pos |-> used[k].paste_pos]]
    IN IF \E k \in 1..Len(used) : tiles_dir[pasted[k].tile] # "ok"
       THEN NoImage
       ELSE <<pasted>>

\* The box moved by the crop origin alone, the paste origin left out.
retarget_from_source_origin(r, bbox, tile_size) ==
    translate_and_clip_bbox(bbox, r[4], r[5], tile_size)

\* sliding_window.py:384-394. The box of an annotation of the required tile r
\* in window coordinates, <<>> when it is outside the window.
retarget(r, bbox, tile_size) ==
    LET tile_offset_x == r[4] - r[6]
        tile_offset_y == r[5] - r[7]
    IN translate_and_clip_bbox(bbox, tile_offset_x, tile_offset_y, tile_size)

\* No download is under way.
NoDownload ==
    /\ tiles = <<>>
    /\ max_concurrent = 1
    /\ skip_existing = FALSE
    /\ files = [a \in Tiles |-> "absent"]
    /\ filesBefore = files
    /\ sem = 0
    /\ taskPc = <<>>
    /\ result = <<>>
    /\ doneOrder = <<>>
    /\ yielded = 0
    /\ total = 0 /\ completed = 0 /\ failed = 0 /\ skipped = 0
    /\ stream = <<>>
    /\ genPc = "start"
    /\ existedAtRun = <<>>
    /\ requests = <<>>
    /\ permits = <<>>
    /\ counted = <<>>

PureInit == NoDownload /\ SlidingIdle /\ NoConfig

\* The downloader's state, which sliding_window.py does not touch.
fetchVars == <<params, taskVars, genVars>>

\* generate_window_offsets(tile_size, stride)
CallGenerateWindowOffsets ==
    /\ call = NoCall
    /\ \E T \in 1..MaxSize, S \in 1..MaxSize :
       /\ call' = [fn |-> "generate_window_offsets", args |-> <<T, S>>]
       /\ ret' = generate_window_offsets(T, S)
       /\ UNCHANGED <<fetchVars, runVars, configVars>>

\* get_required_tiles(z, x, y, offset_x, offset_y, tile_size), the offset
\* inside the tile.
CallGetRequiredTiles ==
    /\ call = NoCall
    /\ \E T \in 1..MaxSize, z \in ZoomLevels, x \in BaseXY, y \in BaseXY :
       \E dx \in 0..(T - 1), dy \in 0..(T - 1) :
          /\ call' = [fn |-> "get_required_tiles", args |-> <<z, x, y, dx, dy, T>>]
          /\ ret' = get_required_tiles(z, x, y, dx, dy, T)
          /\ UNCHANGED <<fetchVars, runVars, configVars>>

\* The tile directories of the calls: every tile readable but at most one.
TileDirs ==
    {[t \in TileCoords |-> IF t = bad THEN st ELSE "ok"] :
        bad \in TileCoords, st \in DiskStatuses}

\* create_window_image(tiles_dir, z, x, y, offset_x, offset_y, tile_size)
CallCreateWindowImage ==
    /\ call = NoCall
    /\ \E T \in 1..MaxSize, z \in ZoomLevels, x \in BaseXY, y \in BaseXY :
       \E dx \in 0..(T - 1), dy \in 0..(T - 1), tiles_dir \in TileDirs :
          /\ call' = [fn |-> "create_window_image",
                      args |-> <<tiles_dir, z, x, y, dx, dy, T>>]
          /\ ret' = create_window_image(tiles_dir, z, x, y, dx, dy, T)
          /\ UNCHANGED <<fetchVars, runVars, configVars>>

\* A box of a 256-pixel tile and the window at offset (128, 128).
ClipExample == <<<<200, 200, 40, 40>>, 128, 128, 256>>

\* translate_and_clip_bbox(bbox, offset_x, offset_y, tile_size) is called.
Clip(bbox, offset_x, offset_y, tile_size) ==
    /\ call' = [fn |-> "translate_and_clip_bbox",
                args |-> <<bbox, offset_x, offset_y, tile_size>>]
    /\ ret' = translate_and_clip_bbox(bbox, offset_x, offset_y, tile_size)
    /\ UNCHANGED <<fetchVars, runVars, configVars>>

\* The calls of translate_and_clip_bbox: a box of positive size with its
\* corner in the tile and an offset of at most a tile either way, or the
\* example.
CallTranslateAndClipBbox ==
    /\ call = NoCall
    /\ \/ \E T \in 1..MaxSize :
             \E bx \in 0..(T - 1), by \in 0..(T - 1), bw \in 1..T, bh \in 1..T,
                ox \in (-T)..T, oy \in (-T)..T :
                Clip(<<bx, by, bw, bh>>, ox, oy, T)
       \/ Clip(ClipExample[1], ClipExample[2], ClipExample[3], ClipExample[4])

\* translate_and_clip_bbox applied to the box it has just returned, with
\* offset (0, 0) and the same tile size.
ClipAgain ==
    /\ call.fn = "translate_and_clip_bbox"
    /\ ret # <<>>
    /\ call' = [fn |-> "clip_again", args |-> <<ret, 0, 0, call.args[4]>>]
    /\ ret' = translate_and_clip_bbox(ret, 0, 0, call.args[4])
    /\ UNCHANGED <<fetchVars, runVars, configVars>>

\* The annotation loop of process_sliding_windows (sliding_window.py:376-394)
\* for one box inside the frame of the k-th tile a window requires.
CallRetarget ==
    /\ call = NoCall
    /\ \E T \in 1..MaxSize, z \in ZoomLevels, x \in BaseXY, y \in BaseXY :
       \E dx \in 0..(T - 1), dy \in 0..(T - 1), bx \in 0..(T - 1), by \in 0..(T - 1) :
       \E bw \in 1..(T - bx), bh \in 1..(T - by) :
       \E k \in 1..Len(get_required_tiles(z, x, y, dx, dy, T)) :
          /\ call' = [fn |-> "retarget",
                      args |-> <<z, x, y, dx, dy, T, k, <<bx, by, bw, bh>> >>]
          /\ ret' = retarget(get_required_tiles(z, x, y, dx, dy, T)[k],
                             <<bx, by, bw, bh>>, T)
          /\ UNCHANGED <<fetchVars, runVars, configVars>>

PureNext ==
    \/ CallRetarget
    \/ CallGenerateWindowOffsets
    \/ CallGetRequiredTiles
    \/ CallCreateWindowImage
    \/ CallTranslateAndClipBbox
    \/ ClipAgain

PureSpec == PureInit /\ [][PureNext]_vars

(***************************************************************************)
(* backend/sliding_window.py: process_sliding_windows.                     *)
(***************************************************************************)

\* The width and height of the tiles of a corpus.
TileWidths == {2}

\* The labels an image of width w can carry: none, the top left pixel, or
\* the whole tile and its bottom right pixel.
LabelChoices(w) ==
    { <<>>,
      << [category_id |-> 1, bbox |-> <<0, 0, 1, 1>>] >>,
      << [category_id |-> 2, bbox |-> <<0, 0, w, w>>],
         [category_id |-> 1, bbox |-> <<w - 1, w - 1, 1, 1>>] >> }

\* The sequences of different file names, MaxImages at most.
NameLists ==
    {s \in UNION {[1..n -> CorpusNames] : n \in 0..MaxImages} :
        \A i, j \in 1..Len(s) : i # j => s[i] # s[j]}

\* The tiles directories of the runs: every file readable but at most one.
RunDirs ==
    {[f \in FileNames |-> IF f = bad THEN st ELSE "ok"] :
        bad \in FileNames, st \in DiskStatuses}

\* process_sliding_windows(stride) is called on a corpus and a tiles
\* directory, either of which may be missing.
RunInit ==
    /\ NoDownload
    /\ call = NoCall /\ ret = <<>>
    /\ runPc = "start"
    /\ tiles_dir_found \in BOOLEAN
    /\ run_tiles_dir \in IF tiles_dir_found THEN RunDirs
                        ELSE {[f \in FileNames |-> "absent"]}
    /\ coco_exists \in BOOLEAN
    /\ \E w \in TileWidths, names \in NameLists :
          /\ run_stride \in 1..w
          /\ \E labels \in [1..Len(names) -> LabelChoices(w)] :
                coco_data = CocoData(names, w, labels)
    /\ ~coco_exists => coco_data.images = <<>>
    /\ FreshRun
    /\ NoConfig

\* sliding_window.py:53-63. parse_tile_filename raises ValueError on a name
\* of fewer than three parts.
Parses(name) == Len(name) >= 3
parse_tile_filename(name) == <<name[1], name[2], name[3]>>

\* sliding_window.py:268-279. The tiles of the labeled images of the corpus;
\* the set is built and its size printed.
available_tiles ==
    {parse_tile_filename(coco_data.images[k].file_name) :
        k \in {l \in 1..Len(coco_data.images) : Parses(coco_data.images[l].file_name)}}

\* sliding_window.py:268-277. The id of the image of a tile, the last one of
\* that name; 0 stands for no image.
tile_to_image_id(t) ==
    LET ks == {k \in 1..Len(coco_data.images) :
                  /\ Parses(coco_data.images[k].file_name)
                  /\ parse_tile_filename(coco_data.images[k].file_name) = t}
    IN IF ks = {} THEN 0
       ELSE coco_data.images[CHOOSE k \in ks : \A l \in ks : l <= k].id

\* sliding_window.py:281-287. The annotations of an image, in manifest order.
annotations_by_image(image_id) ==
    SelectSeq(coco_data.annotations, LAMBDA a : a.image_id = image_id)

\* The run aborted only after the output directory was made.
AbortAfterMkdir ==
    /\ runPc = "start"
    /\ ~tiles_dir_found \/ ~coco_exists
    /\ raised' = IF ~tiles_dir_found THEN "ValueError" ELSE "FileNotFoundError"
    /\ runPc' = "raised"
    /\ output_made' = TRUE
    /\ UNCHANGED <<inputs, run_tile_size, offsets, output_files,
                   saved, manifest,
                   counts, img_idx, off_idx, visit, visited>>
    /\ UNCHANGED <<fetchVars, pureVars, configVars>>

\* sliding_window.py:236-247. The tiles directory or the annotations
\* manifest is missing: ValueError (tiles directory first) or
\* FileNotFoundError leaves the function.
Abort ==
    /\ runPc = "start"
    /\ ~tiles_dir_found \/ ~coco_exists
    /\ raised' = IF ~tiles_dir_found THEN "ValueError" ELSE "FileNotFoundError"
    /\ runPc' = "raised"
    /\ UNCHANGED <<inputs, run_tile_size, offsets, output_made, output_files,
                   saved, manifest,
                   counts, img_idx, off_idx, visit, visited>>
    /\ UNCHANGED <<fetchVars, pureVars, configVars>>

\* sliding_window.py:245-247. No image in the manifest: the function returns.
ReturnEmpty ==
    /\ runPc = "start"
    /\ tiles_dir_found /\ coco_exists
    /\ coco_data.images = <<>>
    /\ runPc' = "returned"
    /\ UNCHANGED <<inputs, raised, run_tile_size, offsets, output_made,
                   output_files, saved,
                   manifest, counts, img_idx, off_idx, visit, visited>>
    /\ UNCHANGED <<fetchVars, pureVars, configVars>>

\* sliding_window.py:249-299. The tile size is the width of the first image;
\* the offsets are planned and the output directory is made.
Setup ==
    /\ runPc = "start"
    /\ tiles_dir_found /\ coco_exists
    /\ coco_data.images # <<>>
    /\ run_tile_size' = coco_data.images[1].width
    /\ offsets' = generate_window_offsets(run_tile_size', run_stride)
    /\ output_made' = TRUE
    /\ runPc' = "copy"
    /\ img_idx' = 1
    /\ UNCHANGED <<inputs, raised, output_files, saved, manifest, counts, off_idx, visit, visited>>
    /\ UNCHANGED <<fetchVars, pureVars, configVars>>

\* An original counts as found only when its file can be decoded.
OriginalReadable(basename) == run_tiles_dir[basename] = "ok"

\* sliding_window.py:312. The original tile is in the tiles directory.
OriginalFound(basename) == run_tiles_dir[basename] # "absent"

\* The image id spent on an original that is missing.
ImageIdAfterMissingSpent == new_image_id + 1

\* sliding_window.py:348-349. An original that is missing takes no image id.
ImageIdAfterMissing == new_image_id

\* sliding_window.py:303-349. One pass of the first loop: the original is
\* copied and recorded with its annotations under fresh ids, or, when its
\* file is missing, left out with a warning. The segmentation, area, iscrowd
\* and noun_phrase of a record follow from the input record and are left out.
CopyOriginal ==
    /\ runPc = "copy"
    /\ LET orig_image == coco_data.images[img_idx]
           basename == orig_image.file_name
           anns == annotations_by_image(orig_image.id)
       IN IF OriginalFound(basename)
          THEN /\ output_files' = output_files \cup {basename}
               /\ originals_copied' = originals_copied + 1
               /\ new_images' = Append(new_images,
                      [id |-> new_image_id, file_name |-> basename,
                       width |-> orig_image.width, height |-> orig_image.height])
               /\ new_annotations' = new_annotations \o
                      [m \in 1..Len(anns) |->
                          [id |-> new_annotation_id + m - 1,
                           image_id |-> new_image_id,
                           category_id |-> anns[m].category_id,
                           bbox |-> anns[m].bbox]]
               /\ new_annotation_id' = new_annotation_id + Len(anns)
               /\ annotations_created' = annotations_created + Len(anns)
               /\ new_image_id' = new_image_id + 1
          ELSE /\ new_image_id' = ImageIdAfterMissing
               /\ UNCHANGED <<output_files, originals_copied, new_images,
                              new_annotations, new_annotation_id,
                              annotations_created>>
    /\ IF img_idx = Len(coco_data.images)
       THEN runPc' = "image" /\ img_idx' = 1
       ELSE runPc' = runPc /\ img_idx' = img_idx + 1
    /\ UNCHANGED <<inputs, raised, run_tile_size, offsets, output_made, saved,
                   windows_created, windows_skipped, off_idx, visit, visited>>
    /\ UNCHANGED <<fetchVars, pureVars, configVars>>

\* sliding_window.py:353-366. The head of the second loop: the loop ends
\* after the last image; an image whose name does not parse is passed over,
\* and so is every image when there is no offset.
EnterImage ==
    /\ runPc = "image"
    /\ IF img_idx > Len(coco_data.images)
       THEN runPc' = "write" /\ UNCHANGED <<img_idx, off_idx>>
       ELSE IF ~Parses(coco_data.images[img_idx].file_name) \/ offsets = <<>>
            THEN img_idx' = img_idx + 1 /\ UNCHANGED <<runPc, off_idx>>
            ELSE runPc' = "offset" /\ off_idx' = 1 /\ UNCHANGED img_idx
    /\ UNCHANGED <<inputs, raised, run_tile_size, offsets, output_made, output_files,
                   saved, manifest, counts, visit, visited>>
    /\ UNCHANGED <<fetchVars, pureVars, configVars>>

\* The annotation of a window filed under the image of its source tile.
AnnotatedTile(tile_image_id) == tile_image_id

\* sliding_window.py:410. The image an annotation of a window is filed under.
AnnotatedImage(tile_image_id) == new_image_id

\* sliding_window.py:369-418. The annotations of the labeled tiles a window
\* needs, moved into the window and clipped, numbered from the next id on.
window_annotations(z, x, y, offset_x, offset_y) ==
    LET required_tiles == get_required_tiles(z, x, y, offset_x, offset_y, run_tile_size)
        of_tile(k) ==
            LET r == required_tiles[k]
                tile_image_id == tile_to_image_id(<<r[1], r[2], r[3]>>)
                tile_annotations == IF tile_image_id = 0 THEN <<>>
                                    ELSE annotations_by_image(tile_image_id)
            IN [m \in 1..Len(tile_annotations) |->
                   [ann |-> tile_annotations[m],
                    tile_image_id |-> tile_image_id,
                    new_bbox |-> retarget(r, tile_annotations[m].bbox, run_tile_size)]]
        kept == SelectSeq(Concat([k \in 1..Len(required_tiles) |-> of_tile(k)]),
                          LAMBDA c : c.new_bbox # <<>>)
    IN [n \in 1..Len(kept) |->
           [id |-> new_annotation_id + n - 1,
            image_id |-> AnnotatedImage(kept[n].tile_image_id),
            category_id |-> kept[n].ann.category_id,
            bbox |-> kept[n].new_bbox]]

\* No window is dropped for want of annotations.
PrunedNever(anns) == FALSE

\* sliding_window.py:421. A window no annotation is visible in.
Pruned(anns) == anns = <<>>

\* The ids numbered for the annotations of a skipped window are spent.
AnnotationIdConsumed(anns) == new_annotation_id + Len(anns)

\* sliding_window.py:374, 421-432. The ids numbered for the annotations of a
\* skipped window are in temp_annotation_id only: the next id stays.
AnnotationIdAfterSkip(anns) == new_annotation_id

\* The inner loop left before the last offset.
LastOffsetEarly == off_idx >= Len(offsets) - 1

\* sliding_window.py:366. The inner loop is at the last offset.
LastOffset == off_idx = Len(offsets)

\* sliding_window.py:366-454. One pass of the inner loop, for the image
\* img_idx and the offset off_idx.
VisitWindow ==
    /\ runPc = "offset"
    /\ LET name == parse_tile_filename(coco_data.images[img_idx].file_name)
           offset_x == offsets[off_idx][1]
           offset_y == offsets[off_idx][2]
           anns == window_annotations(name[1], name[2], name[3], offset_x, offset_y)
           window_img == IF Pruned(anns) THEN NoImage
                         ELSE create_window_image(run_tiles_dir, name[1], name[2], name[3],
                                                  offset_x, offset_y, run_tile_size)
           window_filename == name \o <<offset_x, offset_y>>
       IN /\ IF window_img = NoImage
             THEN /\ windows_skipped' = windows_skipped + 1
                  /\ new_annotation_id' = AnnotationIdAfterSkip(anns)
                  /\ UNCHANGED <<output_files, windows_created, new_images,
                                 new_annotations, new_image_id,
                                 annotations_created>>
             ELSE /\ output_files' = output_files \cup {window_filename}
                  /\ windows_created' = windows_created + 1
                  /\ new_images' = Append(new_images,
                         [id |-> new_image_id, file_name |-> window_filename,
                          width |-> run_tile_size, height |-> run_tile_size])
                  /\ new_annotation_id' = new_annotation_id + Len(anns)
                  /\ annotations_created' = annotations_created + Len(anns)
                  /\ new_annotations' = new_annotations \o anns
                  /\ new_image_id' = new_image_id + 1
                  /\ UNCHANGED windows_skipped
          /\ visit' = [image |-> img_idx, offset |-> offsets[off_idx],
                       required |-> get_required_tiles(name[1], name[2], name[3],
                                        offset_x, offset_y, run_tile_size),
                       annotations |-> anns,
                       composited |-> ~Pruned(anns),
                       window_img |-> window_img,
                       outcome |-> IF window_img = NoImage THEN "skipped"
                                   ELSE "created",
                       images_before |-> new_images,
                       annotations_before |-> new_annotations,
                       image_id_before |-> new_image_id,
                       annotation_id_before |-> new_annotation_id,
                       skipped_before |-> windows_skipped,
                       counts_before |-> counts,
                       files_before |-> output_files]
    /\ visited' = Append(visited, [image |-> img_idx, offset |-> offsets[off_idx],
                                   outcome |-> visit'.outcome])
    /\ IF LastOffset
       THEN runPc' = "image" /\ img_idx' = img_idx + 1 /\ off_idx' = off_idx
       ELSE runPc' = runPc /\ img_idx' = img_idx /\ off_idx' = off_idx + 1
    /\ UNCHANGED <<inputs, raised, run_tile_size, offsets, output_made, saved,
                   originals_copied>>
    /\ UNCHANGED <<fetchVars, pureVars, configVars>>

\* sliding_window.py:456-470. The manifest is written, once, with the
\* categories of the input.
WriteManifest ==
    /\ runPc = "write"
    /\ saved' = << [images |-> new_images, annotations |-> new_annotations,
                    categories |-> coco_data.categories] >>
    /\ runPc' = "done"
    /\ UNCHANGED <<inputs, raised, run_tile_size, offsets, output_made, output_files,
                   manifest, counts, img_idx, off_idx, visit, visited>>
    /\ UNCHANGED <<fetchVars, pureVars, configVars>>

RunNext ==
    \/ Abort
    \/ ReturnEmpty
    \/ Setup
    \/ CopyOriginal
    \/ EnterImage
    \/ VisitWindow
    \/ WriteManifest

RunSpec == RunInit /\ [][RunNext]_vars

(***************************************************************************)
(* backend/config.py: the tile servers of the configuration.  A name and   *)
(* an id are sequences of characters.  The url_template, bounds, zooms and *)
(* tile_size of a tile server travel with its name and are left out.       *)
(***************************************************************************)

\* The names and the ids the requests carry; an empty id asks for one made
\* from the name.
ServerNames == {<<"A">>, <<"a", "_", "1">>, <<"!">>}
GivenIds == {<<>>, <<"a">>}
PathIds == {<<"a">>, <<"a", "-", "1">>, <<"x">>}

\* str.lower on the characters of the names.
Lower(c) == IF c = "A" THEN "a" ELSE c

\* The characters of [\s_] and of [a-z0-9-] among those of the names.
SpaceOrUnderscore == {" ", "_"}
IdChars == {"a", "e", "i", "l", "r", "s", "t", "v", "1", "2", "3", "-"}

RECURSIVE DropLeading(_, _)
DropLeading(s, class) ==
    IF s # <<>> /\ Head(s) \in class THEN DropLeading(Tail(s), class) ELSE s

RECURSIVE DropTrailing(_, _)
DropTrailing(s, class) ==
    IF s # <<>> /\ s[Len(s)] \in class
    THEN DropTrailing(SubSeq(s, 1, Len(s) - 1), class)
    ELSE s

\* re.sub(class+, "-", s)
RECURSIVE HyphenForRuns(_, _)
HyphenForRuns(s, class) ==
    IF s = <<>> THEN <<>>
    ELSE IF Head(s) \in class
         THEN <<"-">> \o HyphenForRuns(DropLeading(s, class), class)
         ELSE <<Head(s)>> \o HyphenForRuns(Tail(s), class)

\* config.py:12-24.
sanitize_name_to_id(name) ==
    LET lowered == [i \in 1..Len(name) |-> Lower(name[i])]
        hyphened == HyphenForRuns(lowered, SpaceOrUnderscore)
        cleaned == SelectSeq(hyphened, LAMBDA c : c \in IdChars)
        collapsed == HyphenForRuns(cleaned, {"-"})
        id_str == DropTrailing(DropLeading(collapsed, {"-"}), {"-"})
    IN IF id_str # <<>> THEN id_str
       ELSE <<"t", "i", "l", "e", "-", "s", "e", "r", "v", "e", "r">>

\* config.py:142. f"{base_id}-{counter}"
Suffixed(base_id, counter) == base_id \o <<"-", ToString(counter)>>

\* config.py:137-143. The id made from a name: the sanitized name, or the
\* first of name-1, name-2, ... that no stored tile server has.
generated_id(name, existing_ids) ==
    LET base_id == sanitize_name_to_id(name)
    IN IF base_id \notin existing_ids THEN base_id
       ELSE LET counter == CHOOSE n \in 1..(Cardinality(existing_ids) + 1) :
                               /\ Suffixed(base_id, n) \notin existing_ids
                               /\ \A l \in 1..(n - 1) :
                                      Suffixed(base_id, l) \in existing_ids
            IN Suffixed(base_id, counter)

\* config.py:131-147. POST /tile-servers: a server without id gets one made
\* from its name; the server is appended and the configuration saved.
add_tile_server(server) ==
    /\ Len(tile_servers) < MaxServers
    /\ LET existing_ids == {tile_servers[i].id : i \in 1..Len(tile_servers)}
           added == IF server.id = <<>>
                    THEN [server EXCEPT !.id = generated_id(server.name, existing_ids)]
                    ELSE server
       IN /\ tile_servers' = Append(tile_servers, added)
          /\ config_ret' = [status |-> 200, body |-> added]
    /\ config_call' = [fn |-> "add_tile_server", args |-> <<server>>]
    /\ config_before' = tile_servers
    /\ UNCHANGED <<fetchVars, pureVars, runVars>>

\* config.py:150-160. PUT /tile-servers/{server_id}: the first stored server
\* of that id is replaced by the server sent, under the id of the path; 404
\* when there is none.
update_tile_server(server_id, server) ==
    /\ LET found == {i \in 1..Len(tile_servers) : tile_servers[i].id = server_id}
       IN IF found # {}
          THEN LET i == CHOOSE k \in found : \A l \in found : k <= l
                   updated == [server EXCEPT !.id = server_id]
               IN /\ tile_servers' = [tile_servers EXCEPT ![i] = updated]
                  /\ config_ret' = [status |-> 200, body |-> updated]
          ELSE /\ tile_servers' = tile_servers
               /\ config_ret' = [status |-> 404, body |-> "Tile server not found"]
    /\ config_call' = [fn |-> "update_tile_server", args |-> <<server_id, server>>]
    /\ config_before' = tile_servers
    /\ UNCHANGED <<fetchVars, pureVars, runVars>>

\* config.py:163-172. DELETE /tile-servers/{server_id}: every stored server
\* of that id is dropped; 404, nothing saved, when there is none.
delete_tile_server(server_id) ==
    /\ LET kept == SelectSeq(tile_servers, LAMBDA s : s.id # server_id)
       IN IF Len(kept) = Len(tile_servers)
          THEN /\ tile_servers' = tile_servers
               /\ config_ret' = [status |-> 404, body |-> "Tile server not found"]
          ELSE /\ tile_servers' = kept
               /\ config_ret' = [status |-> 200, body |-> [deleted |-> server_id]]
    /\ config_call' = [fn |-> "delete_tile_server", args |-> <<server_id>>]
    /\ config_before' = tile_servers
    /\ UNCHANGED <<fetchVars, pureVars, runVars>>

\* The configuration starts empty.
ConfigInit == NoDownload /\ SlidingIdle /\ NoConfig

ConfigNext ==
    \/ \E id \in GivenIds, name \in ServerNames :
          add_tile_server([id |-> id, name |-> name])
    \/ \E server_id \in PathIds, id \in GivenIds, name \in ServerNames :
          update_tile_server(server_id, [id |-> id, name |-> name])
    \/ \E server_id \in PathIds : delete_tile_server(server_id)

ConfigSpec == ConfigInit /\ [][ConfigNext]_vars

(***************************************************************************)
(* Properties of the tile fetcher.                                         *)
(***************************************************************************)

\* The tiles whose request is issued and whose response is not yet read and
\* written.
InFlight == {i \in TileIds : taskPc[i] \in {"get", "read"}}

\* The snapshots of the stream, in order: the first is the initial one, the
\* others report a tile each.
IsProgress(e) == e.event = "progress"
Progress == SelectSeq(stream, IsProgress)
\* The positions in the snapshots P at which tile i is reported.
SnapshotsOf(P, i) == {k \in 1..Len(P) : P[k].data.current_tile = TileString(tiles[i])}
Last(P) == P[Len(P)].data
StreamEnded == genPc \in {"complete", "closed"}
Failures == {i \in TileIds : taskPc[i] = "done" /\ ~result[i].success}
Skips == {i \in TileIds : taskPc[i] = "done" /\ result[i].success /\ result[i].skipped}

\* C1: with max_concurrent = N > 0, the tiles between issuing their request
\* and finishing their response read and file write are at most N, in every
\* reachable state.
C1_AtMostNInFlight ==
    max_concurrent > 0 => Cardinality(InFlight) <= max_concurrent

\* All slots are taken and a further tile waits for one.
C1_Witness ==
    /\ max_concurrent = 2
    /\ Cardinality(InFlight) = 2
    /\ \E i \in TileIds : taskPc[i] = "acquire"

\* C2: a tile whose file exists when its task runs, with skip_existing true,
\* ends as skipped (a success, not a failure), with no request issued and no
\* semaphore slot taken for it; its snapshot counts it as skipped only.
C2_SkipExisting ==
    LET P == Progress IN
    \A i \in TileIds :
        (skip_existing /\ existedAtRun[i] = "yes") =>
            /\ taskPc[i] = "done"
            /\ result[i] = TileDownloadResult(tiles[i], TRUE, None, TRUE)
            /\ requests[i] = 0
            /\ permits[i] = 0
            /\ \A k \in SnapshotsOf(P, i) :
                  /\ k > 1
                  /\ P[k].data.skipped = P[k - 1].data.skipped + 1
                  /\ P[k].data.failed = P[k - 1].data.failed
                  /\ P[k].data.error = None

\* A skipped tile has its snapshot while another tile's request was issued.
C2_Witness ==
    \E i, j \in TileIds :
        /\ skip_existing /\ existedAtRun[i] = "yes"
        /\ SnapshotsOf(Progress, i) # {}
        /\ requests[j] = 1

\* C3: a tile's failure (a status other than 200, or an exception) never
\* aborts the batch: the failed tile's result carries a non-empty reason, no
\* error leaves the generator, and at the end of the stream every tile has
\* its snapshot.
C3_FailureHasReasonAndBatchGoesOn ==
    /\ \A i \in Failures : result[i].error # None /\ result[i].error # ""
    /\ max_concurrent >= 0 => genPc # "raised"
    /\ StreamEnded => \A i \in TileIds : SnapshotsOf(Progress, i) # {}

\* C4: along the stream total is constant and completed, failed and skipped
\* never decrease; a snapshot with completed = total is the last one, and
\* the ended stream has one (also for the empty tile list).
C4_MonotoneCounts ==
    LET P == Progress IN
    /\ \A k \in 1..Len(P) :
          /\ P[k].data.total = P[1].data.total
          /\ P[k].data.completed = P[k].data.total => k = Len(P)
    /\ \A k \in 1..(Len(P) - 1) :
          /\ P[k].data.completed <= P[k + 1].data.completed
          /\ P[k].data.failed <= P[k + 1].data.failed
          /\ P[k].data.skipped <= P[k + 1].data.skipped
    /\ StreamEnded =>
          /\ Len(P) >= 1
          /\ Last(P).completed = Last(P).total

\* The stream of three tiles has ended, with a failed and a skipped tile.
C4_Witness ==
    /\ genPc = "closed"
    /\ Len(Progress) = 4
    /\ Last(Progress).failed = 1
    /\ Last(Progress).skipped = 1

\* C5: with N > 0 the final snapshot has completed = total = the number of
\* tiles, failed = the number of tiles whose request failed and skipped = the
\* number of tiles skipped as existing.
C5_FinalCounts ==
    LET P == Progress IN
    (StreamEnded /\ max_concurrent > 0) =>
        /\ Len(P) >= 1
        /\ Last(P).total = Len(tiles)
        /\ Last(P).completed = Len(tiles)
        /\ Last(P).failed = Cardinality(Failures)
        /\ Last(P).skipped = Cardinality(Skips)

\* Three tiles, N = 2, one status other than 200: {3, 3, 1, 0}.
C5_Witness ==
    /\ genPc = "closed"
    /\ Len(tiles) = 3
    /\ max_concurrent = 2
    /\ \E i \in Failures : result[i].error = "HTTP 404"
    /\ Last(Progress) \in
          {DownloadProgress(3, 3, 1, 0, TileString(t), e) :
               t \in Tiles, e \in {None, "HTTP 404"}}

\* C6: every tile's result updates the counters once: completed is the number
\* of results consumed, failed and skipped count disjoint sets of the
\* consumed tiles, and at the end every tile was counted.
C6_CountedOnce ==
    LET Consumed == {i \in TileIds : counted[i] > 0}
        P == Progress
    IN
    /\ \A i \in TileIds : counted[i] <= 1
    /\ \A i \in Consumed : taskPc[i] = "done"
    /\ completed = Cardinality(Consumed)
    /\ failed = Cardinality(Consumed \cap Failures)
    /\ skipped = Cardinality(Consumed \cap Skips)
    /\ failed + skipped <= completed
    /\ \A k \in 2..Len(P) :
          /\ P[k].data.completed = k - 1
          /\ P[k].data.failed + P[k].data.skipped <= P[k].data.completed
    /\ StreamEnded => Consumed = TileIds

\* Two results wait to be consumed after a first one was counted.
C6_Witness ==
    /\ completed = 1
    /\ Len(doneOrder) = 3
    /\ Failures # {}

\* C7: every tile has one snapshot, emitted when its result is known and
\* before the next result is taken; the completion marker comes once, after
\* the last snapshot, and nothing follows it.
C7_StreamShape ==
    LET P == Progress IN
    /\ genPc \notin {"start", "raised"} => Len(P) = yielded + 1
    /\ \A i \in TileIds :
          LET at == SnapshotsOf(P, i) IN
          /\ Cardinality(at) = counted[i]
          /\ Cardinality(at) <= 1
          /\ \A k \in at : taskPc[i] = "done" /\ P[k].data.error = result[i].error
          /\ StreamEnded => Cardinality(at) = 1
    /\ \A k \in 1..Len(stream) :
          stream[k] = CompleteEvent => k = Len(stream) /\ k = Len(tiles) + 2
    /\ StreamEnded <=> (stream # <<>> /\ stream[Len(stream)] = CompleteEvent)

\* The stream of three tiles is closed: five events, the marker last.
C7_Witness ==
    /\ genPc = "closed"
    /\ Len(stream) = 5
    /\ stream[5] = CompleteEvent

\* C8: the snapshots come in the order the tiles finished, whatever their
\* order in the list, and once the tasks have had their first run a finished
\* tile's snapshot can be emitted whatever requests are still pending.
C8_FirstCompletedFirstEmitted ==
    LET P == Progress IN
    /\ Len(P) <= Len(doneOrder) + 1
    /\ \A k \in 2..Len(P) :
          P[k].data.current_tile = TileString(tiles[doneOrder[k - 1]])
    /\ (genPc = "await" /\ AllStarted /\ yielded < Len(doneOrder)) => ENABLED Consume

\* The second tile of the list has failed and is reported first; the request
\* of the first is still pending.
C8_Witness ==
    /\ Len(tiles) = 3
    /\ Len(Progress) = 2
    /\ Last(Progress).current_tile = TileString(tiles[2])
    /\ Last(Progress).failed = 1
    /\ taskPc[1] = "get"

\* C9: max_concurrent = 0 is rejected with an error before any task is
\* created, any request is issued or any file is written.
C9_ZeroConcurrencyRejected ==
    max_concurrent = 0 =>
        /\ genPc \in {"start", "raised"}
        /\ \A i \in TileIds : taskPc[i] = "uncreated" /\ requests[i] = 0

\* The stream has ended with the marker and a snapshot of every tile.
Finished ==
    /\ genPc = "closed"
    /\ stream[Len(stream)] = CompleteEvent
    /\ completed = total /\ total = Len(tiles)
    /\ \A i \in TileIds : SnapshotsOf(Progress, i) # {}

\* C10: with N > 0, every request answered or failed and fair scheduling,
\* the stream ends with completed = total and the completion marker, every
\* tile reported.
C10_BatchCompletes == (max_concurrent > 0) ~> Finished

\* Three tiles fetched one at a time, one of them failed.
C10_Witness ==
    /\ Finished
    /\ Len(tiles) = 3
    /\ max_concurrent = 1
    /\ failed = 1 /\ skipped = 0

\* C11: once the consumer has stopped and the generator is closed, no request
\* is started any more, and (N > 0) every task that was in flight or waiting
\* for a slot ends: eventually no task is running or pending.
C11_NoLeakAfterCancel ==
    /\ [][genPc = "cancelled" => requests' = requests]_vars
    /\ (genPc = "cancelled" /\ max_concurrent > 0) ~>
           (\A i \in TileIds : taskPc[i] \in {"uncreated", "done"})

\* The stream was abandoned with one tile in flight and one waiting; both
\* have ended, the waiting one on the closed session.
C11_Witness ==
    /\ genPc = "cancelled"
    /\ Len(tiles) = 3
    /\ \A i \in TileIds : taskPc[i] = "done"
    /\ \E i \in TileIds : result[i].error = "Session is closed" /\ requests[i] = 0
    /\ \E i \in TileIds : counted[i] = 0 /\ requests[i] = 1

CeilDiv(a, b) == CHOOSE q \in 0..a : q * b >= a /\ (q - 1) * b < a

\* The pairs of multiples of S below T, the origin left out.
OffsetGrid(T, S) ==
    {o \in (0..(T - 1)) \X (0..(T - 1)) : o[1] % S = 0 /\ o[2] % S = 0}
        \ {<<0, 0>>}

\* s is strictly increasing by dy first, dx second.
RowMajor(s) ==
    \A i, j \in 1..Len(s) :
        i < j => \/ s[i][2] < s[j][2]
                 \/ s[i][2] = s[j][2] /\ s[i][1] < s[j][1]

\* C13: for 1 <= S <= T, generate_window_offsets(T, S) is the row-major
\* sequence (dy outer, dx inner) of the pairs of multiples of S in [0, T),
\* without (0, 0): ceil(T/S)^2 - 1 elements, none (0, 0), none twice.
C13_OffsetsRowMajor ==
    (call.fn = "generate_window_offsets" /\ call.args[2] <= call.args[1]) =>
        LET T == call.args[1]
            S == call.args[2]
        IN /\ {ret[k] : k \in 1..Len(ret)} = OffsetGrid(T, S)
           /\ RowMajor(ret)
           /\ Len(ret) = CeilDiv(T, S) * CeilDiv(T, S) - 1
           /\ Len(ret) = Cardinality({ret[k] : k \in 1..Len(ret)})
           /\ \A k \in 1..Len(ret) : ret[k] # <<0, 0>>

\* T = 3 and S = 2: the three offsets (2,0), (0,2), (2,2).
C13_Witness ==
    /\ call.fn = "generate_window_offsets"
    /\ call.args = <<3, 2>>
    /\ ret = << <<2, 0>>, <<0, 2>>, <<2, 2>> >>

\* The region p pasted into the window covers the pixel (px, py).
Covers(p, px, py) ==
    /\ p.paste_pos[1] <= px
    /\ px < p.paste_pos[1] + (p.crop_box[3] - p.crop_box[1])
    /\ p.paste_pos[2] <= py
    /\ py < p.paste_pos[2] + (p.crop_box[4] - p.crop_box[2])

\* C15: for 0 <= dx, dy < T the crops of the non-empty chunks, placed at
\* their paste origins, partition the T x T window: every pixel is covered by
\* exactly one of them, each crop lies inside its T x T source tile, and the
\* tiles and origins are those get_required_tiles lists.
C15_ChunksPartitionWindow ==
    (call.fn = "create_window_image" /\ ret # NoImage) =>
        LET T == call.args[7]
            pasted == ret[1]
        IN /\ \A px \in 0..(T - 1), py \in 0..(T - 1) :
                 Cardinality({k \in 1..Len(pasted) : Covers(pasted[k], px, py)}) = 1
           /\ \A k \in 1..Len(pasted) :
                 /\ 0 <= pasted[k].crop_box[1]
                 /\ pasted[k].crop_box[1] < pasted[k].crop_box[3]
                 /\ pasted[k].crop_box[3] <= T
                 /\ 0 <= pasted[k].crop_box[2]
                 /\ pasted[k].crop_box[2] < pasted[k].crop_box[4]
                 /\ pasted[k].crop_box[4] <= T
                 /\ \A px \in (-1)..T, py \in (-1)..T :
                       Covers(pasted[k], px, py) =>
                           px \in 0..(T - 1) /\ py \in 0..(T - 1)
           /\ [k \in 1..Len(pasted) |->
                  pasted[k].tile \o <<pasted[k].crop_box[1], pasted[k].crop_box[2]>>
                                 \o pasted[k].paste_pos]
                 = get_required_tiles(call.args[2], call.args[3], call.args[4],
                                      call.args[5], call.args[6], T)

\* A window composed of four regions of different sizes.
C15_Witness ==
    /\ call.fn = "create_window_image"
    /\ ret # NoImage
    /\ Len(ret[1]) = 4
    /\ call.args[5] # call.args[6]
    /\ call.args[5] + call.args[6] # call.args[7]

\* C16: for 0 <= dx, dy < T the contributing tiles are the base tile always
\* (crop origin (dx, dy), pasted at (0, 0)), the east one exactly when dx > 0
\* (crop origin (0, dy), pasted at (T-dx, 0)), the south one exactly when
\* dy > 0 (crop origin (dx, 0), pasted at (0, T-dy)) and the diagonal one
\* exactly when dx > 0 and dy > 0 (crop origin (0, 0), pasted at
\* (T-dx, T-dy)): 1, 2 or 4 tiles.
C16_ContributingTiles ==
    call.fn = "get_required_tiles" =>
        LET z == call.args[1]
            x == call.args[2]
            y == call.args[3]
            dx == call.args[4]
            dy == call.args[5]
            T == call.args[6]
            got == {ret[k] : k \in 1..Len(ret)}
        IN /\ got = {<<z, x, y, dx, dy, 0, 0>>}
                    \cup (IF dx > 0 THEN {<<z, x + 1, y, 0, dy, T - dx, 0>>} ELSE {})
                    \cup (IF dy > 0 THEN {<<z, x, y + 1, dx, 0, 0, T - dy>>} ELSE {})
                    \cup (IF dx > 0 /\ dy > 0
                          THEN {<<z, x + 1, y + 1, 0, 0, T - dx, T - dy>>} ELSE {})
           /\ Len(ret) = Cardinality(got)
           /\ Len(ret) \in {1, 2, 4}

\* An offset down only: the base tile and the south one.
C16_Witness ==
    /\ call.fn = "get_required_tiles"
    /\ call.args[4] = 0 /\ call.args[5] > 0
    /\ Len(ret) = 2
    /\ ret[2][3] = call.args[3] + 1

\* The pixels of the box b = [x, y, w, h].
Cells(b) == (b[1]..(b[1] + b[3] - 1)) \X (b[2]..(b[2] + b[4] - 1))

\* C17: translate_and_clip_bbox moves the box by (-ox, -oy) and cuts it to
\* the window [0, T] x [0, T]: None exactly when nothing of the moved box is
\* left in the window, else the part of it in the window, of positive width
\* and height; a box inside the window comes back moved, its size unchanged
\* (T = 256, offset (128, 128), [200, 200, 40, 40] gives [72, 72, 40, 40]).
C17_TranslateAndClip ==
    call.fn = "translate_and_clip_bbox" =>
        LET bbox == call.args[1]
            T == call.args[4]
            moved == <<bbox[1] - call.args[2], bbox[2] - call.args[3],
                       bbox[3], bbox[4]>>
            left == Cells(moved) \cap ((0..(T - 1)) \X (0..(T - 1)))
        IN /\ ret = <<>> <=> left = {}
           /\ ret # <<>> =>
                 /\ Len(ret) = 4
                 /\ ret[3] > 0 /\ ret[4] > 0
                 /\ ret[1] >= 0 /\ ret[2] >= 0
                 /\ ret[1] + ret[3] <= T /\ ret[2] + ret[4] <= T
                 /\ Cells(ret) = left
           /\ (/\ moved[1] >= 0 /\ moved[2] >= 0
               /\ moved[1] + moved[3] <= T /\ moved[2] + moved[4] <= T)
                 => ret = moved
           /\ call.args = ClipExample => ret = <<72, 72, 40, 40>>

\* The box of the 256-pixel tile, moved into the window and not clipped.
C17_Witness ==
    /\ call.fn = "translate_and_clip_bbox"
    /\ call.args = ClipExample
    /\ ret = <<72, 72, 40, 40>>

\* C18: clipping is idempotent: a box b that translate_and_clip_bbox has
\* returned comes back unchanged from translate_and_clip_bbox(b, 0, 0, T).
C18_ClipIdempotent ==
    call.fn = "clip_again" => ret = call.args[1]

\* A box cut at both sides of the window was clipped again.
C18_Witness ==
    /\ call.fn = "clip_again"
    /\ ret = call.args[1]
    /\ ret[1] = 0
    /\ ret[3] = call.args[4]
    /\ ret[4] < call.args[4]

(***************************************************************************)
(* Properties of process_sliding_windows.                                  *)
(***************************************************************************)

\* The manifest written holds the images list, in order, under any ids, and
\* for each of them the annotations the input has for it.
ManifestHolds(list) ==
    LET out == saved[1]
        expected == Concat([k \in 1..Len(list) |->
                       LET anns == SelectSeq(coco_data.annotations,
                                       LAMBDA a : a.image_id = list[k].id)
                       IN [m \in 1..Len(anns) |->
                              [image |-> k, category_id |-> anns[m].category_id,
                               bbox |-> anns[m].bbox]]])
        PlaceOf(id) ==
            IF \E k \in 1..Len(out.images) : out.images[k].id = id
            THEN CHOOSE k \in 1..Len(out.images) : out.images[k].id = id
            ELSE 0
    IN /\ [k \in 1..Len(out.images) |->
              [file_name |-> out.images[k].file_name,
               width |-> out.images[k].width, height |-> out.images[k].height]]
          = [k \in 1..Len(list) |->
              [file_name |-> list[k].file_name,
               width |-> list[k].width, height |-> list[k].height]]
       /\ [n \in 1..Len(out.annotations) |->
              [image |-> PlaceOf(out.annotations[n].image_id),
               category_id |-> out.annotations[n].category_id,
               bbox |-> out.annotations[n].bbox]]
          = expected

\* The run has ended with stride equal to the tile size.
StrideIsSize == runPc = "done" /\ run_stride = run_tile_size

\* The images of the input whose file is in the tiles directory.
OriginalsOnDisk ==
    SelectSeq(coco_data.images, LAMBDA im : run_tiles_dir[im.file_name] # "absent")

\* C14 as stated: with stride equal to the tile size there is no offset, no
\* window is created or skipped, and the manifest written holds exactly the
\* images of the input and their annotations.
C14_OnlyOriginals ==
    StrideIsSize =>
        /\ offsets = <<>>
        /\ windows_created = 0 /\ windows_skipped = 0
        /\ ManifestHolds(coco_data.images)

\* C14, amended: with stride equal to the tile size there is no offset, no
\* window is created or skipped, and the manifest written holds exactly the
\* images of the input whose tile file is in the tiles directory, and their
\* annotations.
C14_OnlyOriginalsOnDisk ==
    StrideIsSize =>
        /\ offsets = <<>>
        /\ windows_created = 0 /\ windows_skipped = 0
        /\ ManifestHolds(OriginalsOnDisk)
        /\ originals_copied = Len(OriginalsOnDisk)

\* Two labeled images, the file of the first missing: the manifest holds the
\* second with its two annotations.
C14_Witness ==
    /\ StrideIsSize
    /\ Len(coco_data.images) = 2
    /\ Len(OriginalsOnDisk) = 1
    /\ Len(saved[1].images) = 1
    /\ Len(saved[1].annotations) = 2
    /\ saved[1].images[1].file_name = coco_data.images[2].file_name

\* The image records of windows: their file names have the offset in them.
IsWindow(im) == Len(im.file_name) = 5

\* C19: a window in which no annotation survives is pruned: it is not
\* composited (create_window_image is not called for it), no file is written
\* and no image record appended; so every window image of the manifest has an
\* annotation.
C19_EmptyWindowPruned ==
    /\ (visit.outcome # "none" /\ visit.annotations = <<>>) =>
           /\ ~visit.composited
           /\ visit.outcome = "skipped"
           /\ new_images = visit.images_before
           /\ output_files = visit.files_before
    /\ visit.composited => visit.annotations # <<>>
    /\ \A k \in 1..Len(new_images) :
           IsWindow(new_images[k]) =>
               \E n \in 1..Len(new_annotations) :
                   new_annotations[n].image_id = new_images[k].id

\* A window of a labeled image was pruned after another window was created.
C19_Witness ==
    /\ visit.outcome = "skipped"
    /\ visit.annotations = <<>>
    /\ ~visit.composited
    /\ windows_created > 0
    /\ \E a \in 1..Len(coco_data.annotations) :
           coco_data.annotations[a].image_id = coco_data.images[visit.image].id

\* A tile the last window visited needs is missing or cannot be opened.
TileUnusable ==
    \E k \in 1..Len(visit.required) :
        run_tiles_dir[<<visit.required[k][1], visit.required[k][2],
                        visit.required[k][3]>>] # "ok"

\* C20: when a tile a window needs is missing on disk or cannot be opened,
\* create_window_image returns None, no file is written for the window, it
\* is counted as skipped, nothing is raised and the run goes on with the
\* next pair.
C20_UnbuildableWindowSkipped ==
    (visit.composited /\ TileUnusable) =>
        /\ visit.window_img = NoImage
        /\ visit.outcome = "skipped"
        /\ output_files = visit.files_before
        /\ new_images = visit.images_before
        /\ windows_skipped = visit.skipped_before + 1
        /\ raised = ""
        /\ runPc \in {"offset", "image", "write", "done"}
        /\ \/ img_idx > visit.image
           \/ /\ img_idx = visit.image
              /\ runPc = "offset"
              /\ offsets[off_idx - 1] = visit.offset

\* A window with annotations was skipped for a tile that cannot be opened,
\* after another window was created, and the run has gone on.
C20_Witness ==
    /\ visit.composited
    /\ visit.outcome = "skipped"
    /\ \E k \in 1..Len(visit.required) :
           run_tiles_dir[<<visit.required[k][1], visit.required[k][2],
                           visit.required[k][3]>>] = "corrupt"
    /\ windows_created > 0
    /\ runPc = "done"

\* C21: after a full run the image ids of the manifest are 1, 2, ... up to
\* the number of images and the annotation ids 1, 2, ... up to the number
\* of annotations, in manifest order, originals and windows together,
\* whatever tiles are missing and whatever windows are skipped.
C21_IdsContiguous ==
    runPc = "done" =>
        /\ \A k \in 1..Len(saved[1].images) : saved[1].images[k].id = k
        /\ \A n \in 1..Len(saved[1].annotations) : saved[1].annotations[n].id = n

\* A run with a missing original, a window skipped and two created: three
\* images and at least four annotations.
C21_Witness ==
    /\ runPc = "done"
    /\ Len(coco_data.images) = 2
    /\ originals_copied = 1
    /\ windows_skipped > 0
    /\ windows_created = 2
    /\ Len(saved[1].images) = 3
    /\ Len(saved[1].annotations) >= 4

\* The passes of the inner loop made for the image k and the offset o.
PassesOf(k, o) == {v \in 1..Len(visited) :
                     visited[v].image = k /\ visited[v].offset = o}

\* The passes that ended as outcome.
PassesEnded(outcome) == {v \in 1..Len(visited) : visited[v].outcome = outcome}

\* At the end every offset was visited once for each image of the list
\* images, every pass created or skipped a window, and the two counters add
\* up to the number of these pairs.
SinglePassOver(imgs) ==
    /\ \A k \in 1..Len(coco_data.images), o \in 1..Len(offsets) :
           Cardinality(PassesOf(k, offsets[o])) = IF k \in imgs THEN 1 ELSE 0
    /\ Len(visited) = Cardinality(imgs) * Len(offsets)
    /\ windows_created = Cardinality(PassesEnded("created"))
    /\ windows_skipped = Cardinality(PassesEnded("skipped"))
    /\ windows_created + windows_skipped = Cardinality(imgs) * Len(offsets)

\* C22 as stated: a run visits every (image, offset) pair exactly once, each
\* pass ends as window created or window skipped, and at the end
\* windows_created + windows_skipped is the number of input images times the
\* number of offsets.
C22_SinglePass ==
    runPc = "done" => SinglePassOver(1..Len(coco_data.images))

\* C22, amended: the same for the input images whose file name parses as a
\* tile address; an image whose name does not parse is visited for no offset
\* and counted neither as created nor as skipped.
C22_SinglePassOverTiles ==
    runPc = "done" =>
        SinglePassOver({k \in 1..Len(coco_data.images) :
                           Parses(coco_data.images[k].file_name)})

\* A run over an image whose name does not parse and a tile, three offsets:
\* three passes, windows created and skipped.
C22_Witness ==
    /\ runPc = "done"
    /\ Len(coco_data.images) = 2
    /\ coco_data.images[1].file_name = BadName
    /\ Len(offsets) = 3
    /\ Len(visited) = 3
    /\ windows_created > 0 /\ windows_skipped > 0

\* C23: at the end of a run every annotation of the manifest is filed under
\* exactly one image record of the manifest.
C23_NoOrphans ==
    runPc = "done" =>
        \A n \in 1..Len(saved[1].annotations) :
            Cardinality({k \in 1..Len(saved[1].images) :
                           saved[1].images[k].id = saved[1].annotations[n].image_id}) = 1

\* A run with an original missing on disk, windows skipped and created, and
\* annotations of an original and of a window in the manifest.
C23_Witness ==
    /\ runPc = "done"
    /\ originals_copied >= 1 /\ originals_copied < Len(coco_data.images)
    /\ windows_skipped > 0 /\ windows_created > 0
    /\ \E n \in 1..Len(saved[1].annotations) :
           saved[1].annotations[n].image_id <= originals_copied
    /\ \E n \in 1..Len(saved[1].annotations) :
           saved[1].annotations[n].image_id > originals_copied

\* The manifest holds a record of the input image k with the same file name,
\* width and height, and under it every input annotation of that image with
\* the same bbox and category_id.
CopiedVerbatim(k) ==
    LET orig_image == coco_data.images[k]
        input == {a \in 1..Len(coco_data.annotations) :
                     coco_data.annotations[a].image_id = orig_image.id}
    IN \E j \in 1..Len(saved[1].images) :
           /\ saved[1].images[j].file_name = orig_image.file_name
           /\ saved[1].images[j].width = orig_image.width
           /\ saved[1].images[j].height = orig_image.height
           /\ \A a \in input :
                  \E n \in 1..Len(saved[1].annotations) :
                      /\ saved[1].annotations[n].image_id = saved[1].images[j].id
                      /\ saved[1].annotations[n].bbox = coco_data.annotations[a].bbox
                      /\ saved[1].annotations[n].category_id =
                             coco_data.annotations[a].category_id

C25_AbortBeforeSideEffects ==
    /\ (~tiles_dir_found \/ ~coco_exists) => runPc \in {"idle", "start", "raised"}
    /\ runPc = "raised" =>
           /\ raised \in {"ValueError", "FileNotFoundError"}
           /\ ~tiles_dir_found \/ ~coco_exists
           /\ ~output_made
           /\ output_files = {}
           /\ saved = <<>>
           /\ visited = <<>>
           /\ originals_copied = 0 /\ windows_created = 0

\* A run aborted for want of the input manifest, tile files on disk.
C25_Witness ==
    /\ runPc = "raised"
    /\ raised = "FileNotFoundError"
    /\ tiles_dir_found
    /\ \E f \in FileNames : run_tiles_dir[f] = "ok"

\* C26: a window is created only when every tile it requires is a labeled
\* image of the input corpus, a member of available_tiles.
C26_AllRequiredLabeled ==
    visit.outcome = "created" =>
        \A k \in 1..Len(visit.required) :
            <<visit.required[k][1], visit.required[k][2], visit.required[k][3]>>
                \in available_tiles

\* C27: after a pass that skipped its window, the images, the annotations,
\* the next image id and the next annotation id of the manifest under
\* construction are what they were before the pass, no file was written,
\* and of the counters only windows_skipped moved, by one.
C27_SkipLeavesManifest ==
    visit.outcome = "skipped" /\ runPc \in {"offset", "image", "write", "done"} =>
        /\ new_images = visit.images_before
        /\ new_annotations = visit.annotations_before
        /\ new_image_id = visit.image_id_before
        /\ new_annotation_id = visit.annotation_id_before
        /\ output_files = visit.files_before
        /\ windows_skipped = visit.skipped_before + 1
        /\ counts = <<visit.counts_before[1], visit.counts_before[2],
                      visit.counts_before[3] + 1, visit.counts_before[4]>>

\* A window skipped as unbuildable, annotations numbered for it, after a
\* window was created.
C27_Witness ==
    /\ visit.outcome = "skipped"
    /\ visit.composited
    /\ Len(visit.annotations) >= 2
    /\ visit.annotations[1].id = new_annotation_id
    /\ windows_created > 0

\* The regions create_window_image crops and pastes when every tile is on
\* disk, as (z, x, y, crop origin, paste origin).
PastedChunks(z, x, y, offset_x, offset_y, tile_size) ==
    LET img == create_window_image([t \in TileCoords |-> "ok"], z, x, y,
                                   offset_x, offset_y, tile_size)
    IN {<<img[1][k].tile[1], img[1][k].tile[2], img[1][k].tile[3],
          img[1][k].crop_box[1], img[1][k].crop_box[2],
          img[1][k].paste_pos[1], img[1][k].paste_pos[2]>> : k \in 1..Len(img[1])}

\* C28: for every tile size T > 0 and offset 0 <= dx, dy < T the entries of
\* get_required_tiles are exactly the tiles, crop origins and paste origins
\* of the chunks create_window_image crops and pastes, each named once.
C28_PlannerAgreesWithCompositor ==
    call.fn = "get_required_tiles" =>
        LET pasted == PastedChunks(call.args[1], call.args[2], call.args[3],
                                   call.args[4], call.args[5], call.args[6])
        IN /\ {ret[k] : k \in 1..Len(ret)} = pasted
           /\ Len(ret) = Cardinality(pasted)

\* A window moved to the right only: the base tile and its east neighbour,
\* and no chunk of zero height below them.
C28_Witness ==
    /\ call.fn = "get_required_tiles"
    /\ call.args[4] > 0 /\ call.args[5] = 0
    /\ Len(ret) = 2
    /\ ret[2][2] = call.args[2] + 1
    /\ Cardinality(PastedChunks(call.args[1], call.args[2], call.args[3],
                                call.args[4], call.args[5], call.args[6])) = 2

\* C29: the box of an annotation that lies inside the frame of its tile,
\* when it is kept, lies inside the rectangle of the window its tile is
\* pasted into: [0, T-dx] or, for a tile to the east, [T-dx, T] across, and
\* [0, T-dy] or, for a tile to the south, [T-dy, T] down.
C29_RetargetedInsidePastedRegion ==
    call.fn = "retarget" /\ ret # <<>> =>
        LET x == call.args[2]
            y == call.args[3]
            dx == call.args[4]
            dy == call.args[5]
            T == call.args[6]
            r == get_required_tiles(call.args[1], x, y, dx, dy, T)[call.args[7]]
            left == IF r[2] = x + 1 THEN T - dx ELSE 0
            right == IF r[2] = x + 1 THEN T ELSE T - dx
            top == IF r[3] = y + 1 THEN T - dy ELSE 0
            bottom == IF r[3] = y + 1 THEN T ELSE T - dy
        IN /\ left <= ret[1] /\ ret[1] + ret[3] <= right
           /\ top <= ret[2] /\ ret[2] + ret[4] <= bottom

\* A box of the diagonal tile was cut to the corner of the window the tile
\* is pasted into.
C29_Witness ==
    /\ call.fn = "retarget"
    /\ call.args[4] > 0 /\ call.args[5] > 0 /\ call.args[7] = 4
    /\ ret # <<>>
    /\ ret[3] < call.args[8][3] /\ ret[4] < call.args[8][4]
    /\ ret[1] = call.args[6] - call.args[4]
    /\ ret[2] = call.args[6] - call.args[5]

\* No two stored tile servers have the same id.
UniqueIds ==
    \A i, j \in 1..Len(tile_servers) :
        tile_servers[i].id = tile_servers[j].id => i = j

\* The path id of the last update or delete was the id of no stored server.
UnknownId ==
    \A i \in 1..Len(config_before) : config_before[i].id # config_call.args[1]

\* An update of a known id answered the server under the id of the path
\* and replaced one stored entry by it, every other entry as before.
UpdateKeepsId ==
    config_call.fn = "update_tile_server" /\ ~UnknownId =>
        /\ config_ret.status = 200
        /\ config_ret.body.id = config_call.args[1]
        /\ Len(tile_servers) = Len(config_before)
        /\ \E i \in 1..Len(tile_servers) :
               /\ config_before[i].id = config_call.args[1]
               /\ tile_servers[i] = config_ret.body
               /\ \A j \in 1..Len(tile_servers) :
                      j # i => tile_servers[j] = config_before[j]

\* An update or delete of an unknown id answered 404 and stored nothing.
UnknownIdNotFound ==
    config_call.fn \in {"update_tile_server", "delete_tile_server"} /\ UnknownId =>
        config_ret.status = 404 /\ tile_servers = config_before

\* C30: after any sequence of add, update and delete calls from the empty
\* configuration no two stored tile servers have the same id; an update
\* keeps the id of the entry it replaces and leaves every other entry
\* unchanged; update and delete of an unknown id answer 404 and leave the
\* stored configuration unchanged.
C30_TileServerIdsUnique == UniqueIds /\ UpdateKeepsId /\ UnknownIdNotFound

====
